---- MODULE Spec2Model ----
(***************************************************************************)
(* Covered-call scanner (src/main.py).                                     *)
(*                                                                         *)
(* scan_asset -> cached_scan -> get_covered_call_strategies, which tries   *)
(* fetch_with_polygon first and falls back to yfinance.                    *)
(*                                                                         *)
(* scan_asset is a plain def route: FastAPI runs each request in a worker  *)
(* thread, so several requests are inside cached_scan at once. Every       *)
(* request has its own position and locals; the lru_cache and the clock    *)
(* are shared. A request takes one step per blocking network call: the     *)
(* step is the answer of that call and the code up to the next call.       *)
(*                                                                         *)
(* Conventions                                                             *)
(*   - a date 'YYYY-MM-DD' is its day ordinal (an integer); zero-padded    *)
(*     ISO strings sort exactly as their ordinals do, and strptime gives   *)
(*     midnight of that day;                                               *)
(*   - datetime.now() is [day, tod]: a day ordinal and the time of day in  *)
(*     ticks, TicksPerDay ticks to a day;                                  *)
(*   - an optional value is <<>> (key missing / None / NaN) or <<v>>;      *)
(*   - prices, strikes and premiums are integers (the unit is free);       *)
(*     quotients are exact rationals [num, den] in lowest terms, with      *)
(*     den = 0 for the IEEE results of a division by zero (inf, -inf, nan);*)
(*   - a text built by an f-string is the tuple of its pieces;             *)
(*   - what a provider answers for a ticker is fixed during a run.         *)
(***************************************************************************)
EXTENDS Integers, Sequences, FiniteSets, TLC

VARIABLES
    clock,       \* what datetime.now() returns at this moment
    horizon,     \* the latest moment the run lasts to
    polygon,     \* ticker -> what the Polygon endpoints answer
    yfin,        \* ticker -> what yfinance answers
    asset,       \* the path parameter of GET /scan/{asset}
    arrivals,    \* how many requests the clients send in this run
    cache,       \* lru_cache of cached_scan: key -> cached return value
    pc,          \* request -> "idle" | "loop" | "aggs" | "contracts" | "chain" |
                 \*   "history_1d" | "history_1y" | "options" | "option_chain" |
                 \*   "done" | "raised"
    tickers,     \* request -> cached_scan: the ticker list being scanned
    idx,         \* request -> cached_scan: position in the for loop (1-based)
    results,     \* request -> cached_scan: the results dict built so far
    strategies,  \* request -> ticker -> the strategies DataFrame (with its index)
    polygon_err, \* request -> ticker -> the RuntimeError caught, or <<>>
    today_dt,    \* request -> ticker -> <<datetime.now() of line 70>>, or <<>>
    today,       \* request -> ticker -> <<datetime.now() of line 136>>, or <<>>
    response     \* request -> what scan_asset returned (<<>> before it returns)

env == <<horizon, polygon, yfin, asset, arrivals>>

vars == <<clock, env, cache, pc, tickers, idx, results, strategies, polygon_err,
          today_dt, today, response>>

-----------------------------------------------------------------------------
(* Program constants *)

MinDays == 20
MaxDays == 40
ItmCount == 2
OtmCount == 5

crypto_etfs ==
    [BTC  |-> <<"IBIT", "FBTC", "GBTC", "ARKB", "BITB", "HODL", "EZBC", "BTCW",
                "YBTC", "BTCI">>,
     ETH  |-> <<"ETHA", "FETH", "ETHV", "ETHE", "YETH", "EHY">>,
     SOL  |-> <<"BSOL", "GSOL", "SOL", "SOLM", "SOLC">>,
     XRP  |-> <<"GXRP", "XRPZ", "TOXR", "XRP", "XRPM">>,
     ADA  |-> <<>>,
     HBAR |-> <<"HBR">>,
     LTC  |-> <<"LTCC">>,
     DOGE |-> <<>>]

-----------------------------------------------------------------------------
(* Bounds of the model *)

TicksPerDay == 2
MaxExpirations == 2
MaxRecs == 2
MaxRequests == 2

-----------------------------------------------------------------------------
(* Helpers *)

Get(opt, default) == IF opt = <<>> THEN default ELSE opt[1]

Range(s) == {s[i] : i \in 1..Len(s)}

Min2(a, b) == IF a <= b THEN a ELSE b

Abs(n) == IF n < 0 THEN -n ELSE n

RECURSIVE GCD(_, _)
GCD(a, b) == IF b = 0 THEN a ELSE GCD(b, a % b)

\* n / d as a float division does it: an exact quotient, or inf / -inf / nan.
Rat(n, d) ==
    IF d = 0
    THEN [num |-> IF n > 0 THEN 1 ELSE IF n < 0 THEN -1 ELSE 0, den |-> 0]
    ELSE LET g == GCD(Abs(n), Abs(d))
             s == IF d < 0 THEN -1 ELSE 1
         IN  [num |-> (s * n) \div g, den |-> (s * d) \div g]

\* str.upper() on the asset names the model requests
Upper(s) ==
    CASE s = "hbar" -> "HBAR"
      [] s = "sol"  -> "SOL"
      [] OTHER      -> s

\* sorted(set(...)): ascending, duplicates removed
RECURSIVE SortedSet(_)
SortedSet(S) ==
    IF S = {} THEN <<>>
    ELSE LET m == CHOOSE x \in S : \A y \in S : x <= y
         IN  <<m>> \o SortedSet(S \ {m})

\* (exp_date - today).days: timedelta.days is the floor of the difference
Days(exp, now) ==
    ((exp - now.day) * TicksPerDay - now.tod) \div TicksPerDay

\* the "Find target expiration" loop: first match in the order given
RECURSIVE TargetExp(_, _)
TargetExp(expirations, now) ==
    IF expirations = <<>> THEN <<>>
    ELSE LET days == Days(Head(expirations), now)
         IN  IF MinDays <= days /\ days <= MaxDays
             THEN <<Head(expirations)>>
             ELSE TargetExp(Tail(expirations), now)

\* DataFrame.head(n)
HeadN(df, n) == SubSeq(df, 1, Min2(n, Len(df)))

\* sort_values('strike', ascending=...): every order of the rows that is sorted
\* by strike (the default sort kind is not stable: rows of equal strike may come
\* out in any order)
RECURSIVE SortValues(_, _)
SortValues(S, ascending) ==
    IF S = {} THEN {<<>>}
    ELSE LET first == {r \in S : \A q \in S :
                          IF ascending THEN r.strike <= q.strike
                                       ELSE r.strike >= q.strike}
         IN  UNION {{<<r>> \o t : t \in SortValues(S \ {r}, ascending)} : r \in first}

-----------------------------------------------------------------------------
(* fetch_with_polygon *)

RuntimeError(msg) == [ok |-> FALSE, err |-> <<"Polygon failed: ", msg>>]

\* last_quote.get('bid', 0) or last_quote.get('last_price', 0)
PolygonPremium(c) ==
    LET bid == Get(c.bid, 0)
    IN  IF bid # 0 THEN bid ELSE Get(c.last_price, 0)

\* the rows appended to data, as pd.DataFrame(data) indexes them (0-based)
PolygonData(calls) ==
    [i \in 1..Len(calls) |->
        [index            |-> i - 1,
         strike           |-> calls[i].strike,
         premium          |-> PolygonPremium(calls[i]),
         impliedVolatility |-> Get(calls[i].implied_volatility, 0),
         openInterest     |-> Get(calls[i].open_interest, 0)]]

\* mutant: the filter keeps a premium of zero
PremiumNotNegative(row) == row.premium >= 0

PremiumPositive(row) == row.premium > 0

\* max(item['h'] ...) if aggs else None, min(item['l'] ...) if aggs else None
AggHigh(aggs) ==
    IF aggs = <<>> THEN <<>>
    ELSE <<CHOOSE h \in {a.h : a \in Range(aggs)} :
              \A a \in Range(aggs) : a.h <= h>>

AggLow(aggs) ==
    IF aggs = <<>> THEN <<>>
    ELSE <<CHOOSE l \in {a.l : a \in Range(aggs)} :
              \A a \in Range(aggs) : a.l >= l>>

\* sorted(set(c['expiration_date'] for c in contracts if 'expiration_date' in c))
PolygonExpirations(contracts) ==
    SortedSet({c[1] : c \in {x \in Range(contracts) : x # <<>>}})

PolygonCalls(chain_data) == SelectSeq(chain_data, LAMBDA c : c.type = "call")

\* lines 40-46: the snapshot request and the price
PolygonSnapshot(p) ==
    IF p.fault = "snapshot" THEN RuntimeError("HTTPError snapshot")
    ELSE IF ~p.hasLastTrade THEN RuntimeError("No price in Polygon snapshot")
    ELSE [ok |-> TRUE, current_price |-> p.price]

\* lines 49-56: the aggregates request and the 52-week range
PolygonAggs(p) ==
    IF p.fault = "aggs" THEN RuntimeError("HTTPError aggs")
    ELSE [ok |-> TRUE, week52_high |-> AggHigh(p.aggs), week52_low |-> AggLow(p.aggs)]

\* line 70 is reached: the contracts request answered with an expiration
PolygonReadsClock(p) ==
    p.fault # "contracts" /\ PolygonExpirations(p.contracts) # <<>>

\* lines 59-80: the contracts request and the target expiration, for the
\* datetime.now() of line 70
PolygonContracts(p, now) ==
    IF p.fault = "contracts" THEN RuntimeError("HTTPError contracts")
    ELSE
    LET expirations == PolygonExpirations(p.contracts)
        target_exp  == TargetExp(expirations, now)
    IN  IF expirations = <<>> THEN RuntimeError("No options expirations found")
        ELSE IF target_exp = <<>> THEN RuntimeError("No suitable expiration")
        ELSE [ok |-> TRUE, target_exp |-> target_exp[1]]

\* lines 83-109: the chain request and the calls DataFrame
PolygonChain(p, target_exp) ==
    IF p.fault = "chain" THEN RuntimeError("HTTPError chain")
    ELSE
    LET calls == PolygonCalls(p.chain[target_exp])
    IN  IF calls = <<>> THEN RuntimeError("No call options")
        ELSE [ok |-> TRUE,
              calls_df |-> SelectSeq(PolygonData(calls), PremiumPositive)]

\* the whole function, for the datetime.now() of line 70
FetchWithPolygon(p, now) ==
    LET s == PolygonSnapshot(p)
        a == PolygonAggs(p)
        c == PolygonContracts(p, now)
    IN  IF ~s.ok THEN s
        ELSE IF ~a.ok THEN a
        ELSE IF ~c.ok THEN c
        ELSE
        LET ch == PolygonChain(p, c.target_exp)
        IN  IF ~ch.ok THEN ch
            ELSE [ok            |-> TRUE,
                  calls_df      |-> ch.calls_df,
                  current_price |-> s.current_price,
                  week52_high   |-> a.week52_high,
                  week52_low    |-> a.week52_low,
                  target_exp    |-> c.target_exp]

-----------------------------------------------------------------------------
(* get_covered_call_strategies *)

Error(msg) == [error |-> msg]

\* an exception that leaves get_covered_call_strategies
Raised(what) == [raised |-> what]

\* calls['premium'] = calls['lastPrice'].fillna(calls['bid'])
YfPremium(c) == IF c.lastPrice # <<>> THEN c.lastPrice ELSE c.bid

\* opt_chain.calls with the premium column, as yfinance indexes it (0-based)
YfCalls(calls) ==
    [i \in 1..Len(calls) |->
        [index            |-> i - 1,
         strike           |-> calls[i].strike,
         premium          |-> YfPremium(calls[i]),
         impliedVolatility |-> calls[i].impliedVolatility,
         openInterest     |-> calls[i].openInterest]]

\* calls[calls['premium'] > 0].dropna(subset=['premium']): NaN > 0 is False
YfPremiumPositive(row) == row.premium # <<>> /\ row.premium[1] > 0

YfUnwrap(df) == [i \in 1..Len(df) |-> [df[i] EXCEPT !.premium = df[i].premium[1]]]

HistHigh(hist_1y) ==
    IF hist_1y = <<>> THEN <<>>
    ELSE <<CHOOSE h \in {a.High : a \in Range(hist_1y)} :
              \A a \in Range(hist_1y) : a.High <= h>>

HistLow(hist_1y) ==
    IF hist_1y = <<>> THEN <<>>
    ELSE <<CHOOSE l \in {a.Low : a \in Range(hist_1y)} :
              \A a \in Range(hist_1y) : a.Low >= l>>

\* the derived columns of one row, then the column selection of line 180
StrategyRow(row, current_price) ==
    LET cap_gain == row.strike - current_price
    IN  [index              |-> row.index,
         strike             |-> row.strike,
         premium            |-> row.premium,
         impliedVolatility  |-> row.impliedVolatility,
         openInterest       |-> row.openInterest,
         total_return_pct   |-> Rat((row.premium + cap_gain) * 100, current_price),
         premium_yield_pct  |-> Rat(row.premium * 100, current_price),
         downside_breakeven |-> current_price - row.premium]

\* strategies.to_dict(orient='records'): the index is dropped
ToDict(df) ==
    [i \in 1..Len(df) |->
        [strike             |-> df[i].strike,
         premium            |-> df[i].premium,
         impliedVolatility  |-> df[i].impliedVolatility,
         openInterest       |-> df[i].openInterest,
         total_return_pct   |-> df[i].total_return_pct,
         premium_yield_pct  |-> df[i].premium_yield_pct,
         downside_breakeven |-> df[i].downside_breakeven]]

\* mutant: the in-the-money rows sorted in ascending order
ItmCallsAscending(calls_df, current_price) ==
    {HeadN(s, ItmCount) :
        s \in SortValues({r \in Range(calls_df) : r.strike < current_price}, TRUE)}

ItmCalls(calls_df, current_price) ==
    {HeadN(s, ItmCount) :
        s \in SortValues({r \in Range(calls_df) : r.strike < current_price}, FALSE)}

OtmCalls(calls_df, current_price) ==
    {HeadN(s, OtmCount) :
        s \in SortValues({r \in Range(calls_df) : r.strike > current_price}, TRUE)}

\* pd.concat([itm_calls, otm_calls]) and the derived columns
Concat(itm_calls, otm_calls, current_price) ==
    LET both == itm_calls \o otm_calls
    IN  [i \in 1..Len(both) |-> StrategyRow(both[i], current_price)]

\* "Common processing for both sources": the possible (return value, DataFrame)
\* pairs; current_price None (a null lastTrade.p) makes float(current_price), and
\* the arithmetic before it, raise TypeError
CommonProcessing(ticker, calls_df, current_price, week52_high, week52_low, target_exp) ==
    IF current_price = <<>>
    THEN {[out |-> Raised("TypeError"), frame |-> <<>>]}
    ELSE {[out   |-> [ticker        |-> ticker,
                      current_price |-> current_price[1],
                      week52_high   |-> week52_high,
                      week52_low    |-> week52_low,
                      expiration    |-> target_exp,
                      strategies    |-> ToDict(Concat(itm, otm, current_price[1]))],
           frame |-> Concat(itm, otm, current_price[1])] :
             itm \in ItmCalls(calls_df, current_price[1]),
             otm \in OtmCalls(calls_df, current_price[1])}

Return(value) == {[out |-> value, frame |-> <<>>]}

\* a return of the fallback before the chain is read
YfError(msg) == [ok |-> FALSE, out |-> Error(msg)]

\* except Exception as e (line 167)
BothFailed(what) == YfError(<<"Both Polygon and yfinance failed: ", what>>)

\* lines 122-126: the 1d history and the price
YfHistory1d(ticker, y) ==
    IF y.fault = "history_1d" THEN BothFailed("history_1d")
    ELSE IF y.hist_1d = <<>>
    THEN YfError(<<"No price data for ", ticker, " (yfinance fallback).">>)
    ELSE [ok |-> TRUE, current_price |-> y.hist_1d[Len(y.hist_1d)]]

\* lines 128-130: the 1y history and the 52-week range
YfHistory1y(y) ==
    IF y.fault = "history_1y" THEN BothFailed("history_1y")
    ELSE [ok |-> TRUE, week52_high |-> HistHigh(y.hist_1y),
          week52_low |-> HistLow(y.hist_1y)]

\* line 136 is reached: etf.options answered with an expiration
YfReadsClock(y) == y.fault # "options" /\ y.options # <<>>

\* lines 132-146: etf.options and the target expiration, for the
\* datetime.now() of line 136
YfOptions(ticker, y, now) ==
    IF y.fault = "options" THEN BothFailed("options")
    ELSE IF y.options = <<>>
    THEN YfError(<<"No options for ", ticker, " (yfinance fallback).">>)
    ELSE
    LET target_exp == TargetExp(y.options, now)
    IN  IF target_exp = <<>>
        THEN YfError(<<"No monthly expiration for ", ticker, " (yfinance fallback).">>)
        ELSE [ok |-> TRUE, target_exp |-> target_exp[1]]

\* lines 148-165 and the common processing: option_chain, the premium filter
\* and the possible (return value, DataFrame) pairs
YfOptionChain(ticker, y, current_price, week52_high, week52_low, target_exp) ==
    IF y.fault = "option_chain"
    THEN Return(BothFailed("option_chain").out)
    ELSE
    LET calls == SelectSeq(YfCalls(y.chain[target_exp]), YfPremiumPositive)
    IN  IF calls = <<>>
        THEN Return([ticker        |-> ticker,
                     current_price |-> current_price,
                     week52_high   |-> week52_high,
                     week52_low    |-> week52_low,
                     expiration    |-> target_exp,
                     strategies    |-> <<>>,
                     message       |->
                        "No calls with positive bid/last price (yfinance fallback)."])
        ELSE CommonProcessing(ticker, YfUnwrap(calls), <<current_price>>,
                              week52_high, week52_low, target_exp)

\* the whole fallback, for the datetime.now() of line 136
YfinanceFallback(ticker, y, now) ==
    LET h == YfHistory1d(ticker, y)
        w == YfHistory1y(y)
        o == YfOptions(ticker, y, now)
    IN  IF ~h.ok THEN Return(h.out)
        ELSE IF ~w.ok THEN Return(w.out)
        ELSE IF ~o.ok THEN Return(o.out)
        ELSE YfOptionChain(ticker, y, h.current_price, w.week52_high, w.week52_low,
                           o.target_exp)

\* the whole function, for the two readings of the clock (lines 70 and 136)
GetCoveredCallStrategies(ticker, p, y, now70, now136) ==
    LET f == FetchWithPolygon(p, now70)
    IN  IF f.ok
        THEN {[out |-> r.out, frame |-> r.frame, polygon_err |-> <<>>] :
                r \in CommonProcessing(ticker, f.calls_df, f.current_price,
                                       f.week52_high, f.week52_low, f.target_exp)}
        ELSE {[out |-> r.out, frame |-> r.frame, polygon_err |-> f.err] :
                r \in YfinanceFallback(ticker, y, now136)}

-----------------------------------------------------------------------------
(* What the providers can answer: the inputs of a request *)

SeqsUpTo(S, n) == UNION {[1..k -> S] : k \in 0..n}

\* expiration dates at both ends of the window, for a clock on day 0 or 1
ExpDates == {20, 21, 40, 41}

Nows == [day : {0, 1}, tod : 0..(TicksPerDay - 1)]

Midnight == [day |-> 0, tod |-> 0]

\* a is a later moment than b
Later(a, b) == a.day * TicksPerDay + a.tod > b.day * TicksPerDay + b.tod

\* a run that starts on day 0 and the moment it lasts to
Spans == {s \in [now : Nows, horizon : Nows] : s.now.day = 0 /\ ~Later(s.now, s.horizon)}

\* a run during which the clock does not move
Instant == [now |-> Midnight, horizon |-> Midnight]

\* one record of the Polygon options snapshot (results[i])
PolyRec(i, type, strike, bid, last_price) ==
    [type |-> type, strike |-> strike, bid |-> bid, last_price |-> last_price,
     implied_volatility |-> IF i = 3 THEN <<>> ELSE <<i>>,
     open_interest      |-> IF i = 3 THEN <<>> ELSE <<100 * i>>]

\* one row of yfinance's opt_chain.calls
YfRec(i, strike, bid, lastPrice) ==
    [strike |-> strike, lastPrice |-> lastPrice, bid |-> bid,
     impliedVolatility |-> i, openInterest |-> 100 * i]

PolyBids == {<<>>, <<-1>>, <<0>>, <<2>>}
PolyLasts == {<<>>, <<-1>>, <<0>>, <<3>>}
Quotes == [bid : PolyBids, last : PolyLasts]

\* strikes on both sides of a price of 50
StrikeAt(i) == IF i % 2 = 1 THEN 50 - 5 * i ELSE 50 + 5 * i

PolyChains ==
    {[i \in 1..Len(q) |-> PolyRec(i, "call", StrikeAt(i), q[i].bid, q[i].last)] :
        q \in SeqsUpTo(Quotes, MaxRecs)}

YfChains ==
    {[i \in 1..Len(q) |-> YfRec(i, StrikeAt(i), q[i].bid, q[i].last)] :
        q \in SeqsUpTo(Quotes, MaxRecs)}

GoodPolyChain == <<PolyRec(1, "call", 45, <<2>>, <<3>>), PolyRec(2, "call", 55, <<2>>, <<>>)>>
GoodYfChain == <<YfRec(1, 45, <<2>>, <<3>>), YfRec(2, 55, <<2>>, <<>>)>>

Poly(fault, hasLastTrade, price, aggs, contracts, chain) ==
    [fault |-> fault, hasLastTrade |-> hasLastTrade, price |-> price, aggs |-> aggs,
     contracts |-> contracts,
     chain |-> [d \in {c[1] : c \in {x \in Range(contracts) : x # <<>>}} |-> chain]]

Yf(fault, hist_1d, hist_1y, options, chain) ==
    [fault |-> fault, hist_1d |-> hist_1d, hist_1y |-> hist_1y, options |-> options,
     chain |-> [d \in Range(options) |-> chain]]

GoodAggs == <<[h |-> 60, l |-> 40], [h |-> 70, l |-> 45]>>
GoodHist == <<[High |-> 61, Low |-> 41], [High |-> 58, Low |-> 39]>>

GoodPoly == Poly("none", TRUE, <<50>>, GoodAggs, <<<<30>>>>, GoodPolyChain)
DownPoly == Poly("snapshot", TRUE, <<50>>, GoodAggs, <<<<30>>>>, GoodPolyChain)
NullPricePoly == Poly("none", TRUE, <<>>, GoodAggs, <<<<30>>>>, GoodPolyChain)
GoodYf == Yf("none", <<48, 50>>, GoodHist, <<30>>, GoodYfChain)
NoDataYf == Yf("none", <<>>, <<>>, <<>>, <<>>)

World(s, p, y) == [now |-> s.now, horizon |-> s.horizon, p |-> p, y |-> y]

\* the expirations and the clock vary; in the last group Polygon selects an
\* expiration and then fails, and yfinance selects among the same dates later
ExpWorlds ==
    {World(s, Poly("none", TRUE, <<50>>, GoodAggs, c, GoodPolyChain), GoodYf) :
        s \in Spans,
        c \in SeqsUpTo({<<d>> : d \in ExpDates} \cup {<<>>}, MaxExpirations)}
    \cup
    {World(s, DownPoly, Yf("none", <<50>>, GoodHist, o, GoodYfChain)) :
        s \in Spans, o \in SeqsUpTo(ExpDates, MaxExpirations)}
    \cup
    {World(s, Poly("chain", TRUE, <<50>>, GoodAggs, <<<<d>>>>, GoodPolyChain),
           Yf("none", <<50>>, GoodHist, <<d>>, GoodYfChain)) :
        s \in Spans, d \in ExpDates}

\* the quotes of the chain vary
PremiumWorlds ==
    {World(Instant, Poly("none", TRUE, <<50>>, GoodAggs, <<<<30>>>>, c), GoodYf) :
        c \in PolyChains}
    \cup
    {World(Instant, DownPoly, Yf("none", <<50>>, GoodHist, <<30>>, c)) :
        c \in YfChains}

\* the strikes of the chain vary, around a price of 100
StrikePool == {80, 90, 95, 100, 105, 110, 120, 130, 140, 150}

\* S in ascending order when up, in descending order otherwise
RECURSIVE Ordered(_, _)
Ordered(S, up) ==
    IF S = {} THEN <<>>
    ELSE LET m == CHOOSE x \in S : \A y \in S : IF up THEN x <= y ELSE x >= y
         IN  <<m>> \o Ordered(S \ {m}, up)

StrikeLists == {Ordered(S, up) : S \in SUBSET StrikePool, up \in BOOLEAN}

\* short chains in which strikes repeat
TieLists == SeqsUpTo({90, 95, 105}, MaxRecs + 1)

BucketWorlds ==
    {World(Instant,
           Poly("none", TRUE, <<100>>, GoodAggs, <<<<30>>>>,
                [i \in 1..Len(k) |-> PolyRec(i + 3, "call", k[i], <<i>>, <<>>)]),
           GoodYf) : k \in StrikeLists \cup TieLists}
    \cup
    {World(Instant, DownPoly,
           Yf("none", <<100>>, GoodHist, <<30>>,
              [i \in 1..Len(k) |-> YfRec(i, k[i], <<>>, <<i>>)])) :
        k \in StrikeLists \cup TieLists}

\* the price, the faults of the providers and empty answers vary
PolyPrices == {<<>>, <<0>>, <<-5>>, <<50>>}

PolyFaults == {"none", "snapshot", "aggs", "contracts", "chain"}

YfFaults == {"none", "history_1d", "history_1y", "options", "option_chain"}

FaultPolys ==
    {Poly(f, TRUE, pr, GoodAggs, <<<<30>>>>, GoodPolyChain) :
        f \in PolyFaults, pr \in PolyPrices}
    \cup
    {Poly("none", h, <<50>>, a, c, ch) :
        h \in BOOLEAN,
        a \in {<<>>, GoodAggs},
        c \in {<<>>, <<<<>>>>, <<<<30>>>>, <<<<60>>>>},
        ch \in {<<>>,
                <<PolyRec(1, "put", 45, <<2>>, <<3>>)>>,
                <<PolyRec(1, "call", 45, <<0>>, <<>>)>>,
                <<PolyRec(1, "put", 45, <<2>>, <<3>>), PolyRec(2, "call", 55, <<2>>, <<>>)>>}}

FaultYfs ==
    {Yf(f, h, GoodHist, <<30>>, GoodYfChain) :
        f \in YfFaults, h \in {<<>>, <<0>>, <<-5>>, <<48, 50>>}}
    \cup
    {Yf("none", <<50>>, hy, o, ch) :
        hy \in {<<>>, GoodHist},
        o \in {<<>>, <<30>>, <<60>>},
        ch \in {<<>>, <<YfRec(1, 45, <<>>, <<0>>)>>, GoodYfChain}}

FaultWorlds == {World(Instant, p, y) : p \in FaultPolys, y \in FaultYfs}

Worlds == ExpWorlds \cup PremiumWorlds \cup BucketWorlds \cup FaultWorlds

\* what a ticker meets in the runs with several tickers or several requests
ScanWorlds ==
    {World(Instant, GoodPoly, GoodYf),
     World(Instant, DownPoly, GoodYf),
     World(Instant, DownPoly, NoDataYf),
     World(Instant, NullPricePoly, GoodYf)}

-----------------------------------------------------------------------------
(* The requests: scan_asset, cached_scan and its loop, one step per blocking *)
(* call of get_covered_call_strategies                                       *)

\* the worker threads of the route, one per request, numbered as they arrive
Reqs == 1..MaxRequests

Key == Upper(asset)

\* crypto_etfs.get(asset.upper(), [])
Tickers(key) == IF key \in DOMAIN crypto_etfs THEN crypto_etfs[key] ELSE <<>>

InitRequests ==
    /\ pc = [r \in Reqs |-> "idle"]
    /\ tickers = [r \in Reqs |-> <<>>]
    /\ idx = [r \in Reqs |-> 1]
    /\ results = [r \in Reqs |-> <<>>]
    /\ strategies = [r \in Reqs |-> <<>>]
    /\ polygon_err = [r \in Reqs |-> <<>>]
    /\ today_dt = [r \in Reqs |-> <<>>]
    /\ today = [r \in Reqs |-> <<>>]
    /\ response = [r \in Reqs |-> <<>>]
    /\ cache = <<>>

\* n requests for asset a, every ticker t of its group meeting the world w[t]
InitRun(a, n, span, w) ==
    /\ asset = a
    /\ arrivals = n
    /\ clock = span.now
    /\ horizon = span.horizon
    /\ polygon = [t \in DOMAIN w |-> w[t].p]
    /\ yfin = [t \in DOMAIN w |-> w[t].y]

\* one request for a single-ticker group (or an empty or unknown one) against
\* any world; concurrent requests for such a group; one request for a group of
\* several tickers, each ticker meeting its own world
Init ==
    /\ \/ \E a \in {"hbar", "ADA", "ZZZ"}, w \in Worlds :
             InitRun(a, 1, w, [t \in Range(Tickers(Upper(a))) |-> w])
       \/ \E a \in {"hbar", "DOGE"}, w \in ScanWorlds :
             InitRun(a, MaxRequests, w, [t \in Range(Tickers(Upper(a))) |-> w])
       \/ \E w \in [Range(Tickers("SOL")) -> ScanWorlds] :
             InitRun("sol", 1, Instant, w)
    /\ InitRequests

\* time passes while the requests wait
TimePasses ==
    /\ \E n \in Nows :
          /\ Later(n, clock)
          /\ ~Later(n, horizon)
          /\ clock' = n
    /\ UNCHANGED <<env, cache, pc, tickers, idx, results, strategies, polygon_err,
                   today_dt, today, response>>

\* request r reaches the route: the requests are numbered in that order
Arrives(r) ==
    /\ pc[r] = "idle"
    /\ r <= arrivals
    /\ r > 1 => pc[r - 1] # "idle"

\* the ticker of the call in progress
tick(r) == tickers[r][idx[r]]

\* GET /scan/{asset} answered from the lru_cache (maxsize 16; a run asks for
\* one key only, so nothing is ever evicted)
CacheHit(r) ==
    /\ Arrives(r)
    /\ Key \in DOMAIN cache
    /\ response' = [response EXCEPT ![r] = cache[Key]]
    /\ pc' = [pc EXCEPT ![r] = "done"]
    /\ UNCHANGED <<clock, env, cache, tickers, idx, results, strategies,
                   polygon_err, today_dt, today>>

\* cached_scan: no tickers for the asset
NoEtfs(r) ==
    /\ Arrives(r)
    /\ Key \notin DOMAIN cache
    /\ Tickers(Key) = <<>>
    /\ response' = [response EXCEPT ![r] = Error(<<"No ETFs for '", Key, "'.">>)]
    /\ cache' = cache @@ (Key :> Error(<<"No ETFs for '", Key, "'.">>))
    /\ pc' = [pc EXCEPT ![r] = "done"]
    /\ UNCHANGED <<clock, env, tickers, idx, results, strategies, polygon_err,
                   today_dt, today>>

\* cached_scan after a cache miss: results = {} and the loop starts; the call
\* for the first ticker waits for the snapshot (line 41)
StartScan(r) ==
    /\ Arrives(r)
    /\ Key \notin DOMAIN cache
    /\ Tickers(Key) # <<>>
    /\ tickers' = [tickers EXCEPT ![r] = Tickers(Key)]
    /\ idx' = [idx EXCEPT ![r] = 1]
    /\ results' = [results EXCEPT ![r] = <<>>]
    /\ strategies' = [strategies EXCEPT ![r] = <<>>]
    /\ polygon_err' = [polygon_err EXCEPT ![r] = [t \in Range(Tickers(Key)) |-> <<>>]]
    /\ today_dt' = [today_dt EXCEPT ![r] = [t \in Range(Tickers(Key)) |-> <<>>]]
    /\ today' = [today EXCEPT ![r] = [t \in Range(Tickers(Key)) |-> <<>>]]
    /\ pc' = [pc EXCEPT ![r] = "loop"]
    /\ UNCHANGED <<clock, env, cache, response>>

\* except RuntimeError as polygon_err: the fallback starts and waits for the
\* 1d history (line 123)
PolygonFailed(r, f) ==
    /\ polygon_err' = [polygon_err EXCEPT ![r][tick(r)] = f.err]
    /\ pc' = [pc EXCEPT ![r] = "history_1d"]

\* fetch_with_polygon goes on to its next request
PolygonGoesOn(r, f, next) ==
    IF f.ok
    THEN pc' = [pc EXCEPT ![r] = next] /\ UNCHANGED polygon_err
    ELSE PolygonFailed(r, f)

\* get_covered_call_strategies ends with o: results[tick] = o.out and the loop
\* goes on, or the exception o.out leaves cached_scan and scan_asset, which
\* catch nothing: the request fails and nothing is cached
Finish(r, o) ==
    IF "raised" \in DOMAIN o.out
    THEN /\ response' = [response EXCEPT ![r] = o.out]
         /\ pc' = [pc EXCEPT ![r] = "raised"]
         /\ UNCHANGED <<idx, results, strategies>>
    ELSE /\ results' = [results EXCEPT ![r] = (tick(r) :> o.out) @@ @]
         /\ strategies' = [strategies EXCEPT ![r] = (tick(r) :> o.frame) @@ @]
         /\ idx' = [idx EXCEPT ![r] = @ + 1]
         /\ pc' = [pc EXCEPT ![r] = "loop"]
         /\ UNCHANGED response

\* the fallback goes on to its next request, or returns an error record
YfGoesOn(r, f, next) ==
    IF f.ok
    THEN /\ pc' = [pc EXCEPT ![r] = next]
         /\ UNCHANGED <<idx, results, strategies, response>>
    ELSE Finish(r, [out |-> f.out, frame |-> <<>>])

\* the snapshot request of line 41 answers
Snapshot(r) ==
    /\ pc[r] = "loop"
    /\ idx[r] <= Len(tickers[r])
    /\ PolygonGoesOn(r, PolygonSnapshot(polygon[tick(r)]), "aggs")
    /\ UNCHANGED <<clock, env, cache, tickers, idx, results, strategies, today_dt,
                   today, response>>

\* the aggregates request of line 52 answers
Aggs(r) ==
    /\ pc[r] = "aggs"
    /\ PolygonGoesOn(r, PolygonAggs(polygon[tick(r)]), "contracts")
    /\ UNCHANGED <<clock, env, cache, tickers, idx, results, strategies, today_dt,
                   today, response>>

\* the contracts request of line 60 answers; line 70 reads the clock
Contracts(r) ==
    /\ pc[r] = "contracts"
    /\ PolygonGoesOn(r, PolygonContracts(polygon[tick(r)], clock), "chain")
    /\ today_dt' = IF PolygonReadsClock(polygon[tick(r)])
                   THEN [today_dt EXCEPT ![r][tick(r)] = <<clock>>]
                   ELSE today_dt
    /\ UNCHANGED <<clock, env, cache, tickers, idx, results, strategies, today,
                   response>>

\* the chain request of line 84 answers; fetch_with_polygon returns and the
\* common processing ends the call
Chain(r) ==
    /\ pc[r] = "chain"
    /\ LET p  == polygon[tick(r)]
           c  == PolygonContracts(p, today_dt[r][tick(r)][1])
           ch == PolygonChain(p, c.target_exp)
       IN  IF ch.ok
           THEN /\ \E o \in CommonProcessing(tick(r), ch.calls_df,
                                             PolygonSnapshot(p).current_price,
                                             PolygonAggs(p).week52_high,
                                             PolygonAggs(p).week52_low,
                                             c.target_exp) : Finish(r, o)
                /\ UNCHANGED polygon_err
           ELSE /\ PolygonFailed(r, ch)
                /\ UNCHANGED <<idx, results, strategies, response>>
    /\ UNCHANGED <<clock, env, cache, tickers, today_dt, today>>

\* etf.history(period='1d') of line 123 answers
History1d(r) ==
    /\ pc[r] = "history_1d"
    /\ YfGoesOn(r, YfHistory1d(tick(r), yfin[tick(r)]), "history_1y")
    /\ UNCHANGED <<clock, env, cache, tickers, polygon_err, today_dt, today>>

\* etf.history(period='1y') of line 128 answers
History1y(r) ==
    /\ pc[r] = "history_1y"
    /\ YfGoesOn(r, YfHistory1y(yfin[tick(r)]), "options")
    /\ UNCHANGED <<clock, env, cache, tickers, polygon_err, today_dt, today>>

\* etf.options of line 132 answers; line 136 reads the clock
Options(r) ==
    /\ pc[r] = "options"
    /\ YfGoesOn(r, YfOptions(tick(r), yfin[tick(r)], clock), "option_chain")
    /\ today' = IF YfReadsClock(yfin[tick(r)])
                THEN [today EXCEPT ![r][tick(r)] = <<clock>>]
                ELSE today
    /\ UNCHANGED <<clock, env, cache, tickers, polygon_err, today_dt>>

\* etf.option_chain of line 148 answers and the call ends
OptionChain(r) ==
    /\ pc[r] = "option_chain"
    /\ LET y == yfin[tick(r)]
       IN  \E o \in YfOptionChain(tick(r), y,
                                  YfHistory1d(tick(r), y).current_price,
                                  YfHistory1y(y).week52_high,
                                  YfHistory1y(y).week52_low,
                                  YfOptions(tick(r), y, today[r][tick(r)][1]).target_exp) :
              Finish(r, o)
    /\ UNCHANGED <<clock, env, cache, tickers, polygon_err, today_dt, today>>

\* return results, which lru_cache stores unless the key was stored meanwhile
ReturnResults(r) ==
    /\ pc[r] = "loop"
    /\ idx[r] > Len(tickers[r])
    /\ response' = [response EXCEPT ![r] = results[r]]
    /\ cache' = cache @@ (Key :> results[r])
    /\ pc' = [pc EXCEPT ![r] = "done"]
    /\ UNCHANGED <<clock, env, tickers, idx, results, strategies, polygon_err,
                   today_dt, today>>

Next ==
    \/ TimePasses
    \/ \E r \in Reqs :
          \/ CacheHit(r)
          \/ NoEtfs(r)
          \/ StartScan(r)
          \/ Snapshot(r)
          \/ Aggs(r)
          \/ Contracts(r)
          \/ Chain(r)
          \/ History1d(r)
          \/ History1y(r)
          \/ Options(r)
          \/ OptionChain(r)
          \/ ReturnResults(r)

Spec == Init /\ [][Next]_vars

-----------------------------------------------------------------------------
(* Reading a finished call back from the state *)

IsSuccess(o) == "strategies" \in DOMAIN o

IsError(o) == "error" \in DOMAIN o

\* the tickers whose call has returned to the loop of request r
Scanned(r) == DOMAIN results[r]

\* the source whose chain the call used
ViaPolygon(r, t) == polygon_err[r][t] = <<>>

\* the reading of the clock the call selected its expiration with
Reading(r, t) == IF ViaPolygon(r, t) THEN today_dt[r][t][1] ELSE today[r][t][1]

\* the raw call records of the chain a success used, as [strike, last, bid, oi]
RawCalls(r, t) ==
    IF ViaPolygon(r, t)
    THEN LET c == PolygonCalls(polygon[t].chain[results[r][t].expiration])
         IN  [i \in 1..Len(c) |->
                [strike |-> c[i].strike, last |-> c[i].last_price, bid |-> c[i].bid,
                 oi |-> Get(c[i].open_interest, 0)]]
    ELSE LET c == yfin[t].chain[results[r][t].expiration]
         IN  [i \in 1..Len(c) |->
                [strike |-> c[i].strike, last |-> c[i].lastPrice, bid |-> c[i].bid,
                 oi |-> c[i].openInterest]]

Positive(opt) == opt # <<>> /\ opt[1] > 0

\* the raw records the premium filter of the source keeps, by position
Priced(r, t) ==
    IF ViaPolygon(r, t)
    THEN LET c == PolygonCalls(polygon[t].chain[results[r][t].expiration])
         IN  {i \in 1..Len(c) : PolygonPremium(c[i]) > 0}
    ELSE LET c == yfin[t].chain[results[r][t].expiration]
         IN  {i \in 1..Len(c) : Positive(YfPremium(c[i]))}

Strikes(list) == [i \in 1..Len(list) |-> list[i].strike]

-----------------------------------------------------------------------------
(* C4 *)

\* C4: in every success result every strategy has a premium that is present and
\* strictly positive, and a raw record whose last_price and bid are both absent,
\* zero or negative is the origin of no strategy, on either source.
StrictPremiumFilter ==
    \A r \in Reqs : \A t \in Scanned(r) :
        IsSuccess(results[r][t]) =>
            /\ Len(results[r][t].strategies) = Len(strategies[r][t])
            /\ \A i \in 1..Len(strategies[r][t]) :
                  LET raw == RawCalls(r, t)[strategies[r][t][i].index + 1]
                  IN  /\ results[r][t].strategies[i].premium > 0
                      /\ results[r][t].strategies[i].premium = strategies[r][t][i].premium
                      /\ Positive(raw.last) \/ Positive(raw.bid)

\* a chain with an unusable record and a strategy emitted from another record
StrictPremiumFilterWitness ==
    \E r \in Reqs : \E t \in Scanned(r) :
        /\ IsSuccess(results[r][t])
        /\ Len(results[r][t].strategies) >= 1
        /\ \E i \in 1..Len(RawCalls(r, t)) :
              ~Positive(RawCalls(r, t)[i].last) /\ ~Positive(RawCalls(r, t)[i].bid)

-----------------------------------------------------------------------------
(* C5 *)

\* C5: the strategy list is the (at most 2) priced candidates with the largest
\* strikes strictly below the current price, in descending strike order, followed
\* by the (at most 5) with the smallest strikes strictly above it, in ascending
\* order; no candidate at the current price appears; at most 7 entries; for price
\* 100 and strikes {80, 90, 95, 105, 110, 120, 130, 140} the order is
\* 95, 90, 105, 110, 120, 130, 140.
BucketSelectionAndOrder ==
    \A r \in Reqs : \A t \in Scanned(r) :
        IsSuccess(results[r][t]) =>
            LET cp   == results[r][t].current_price
                list == results[r][t].strategies
                df   == strategies[r][t]
                raw  == RawCalls(r, t)
                itm  == {i \in Priced(r, t) : raw[i].strike < cp}
                otm  == {i \in Priced(r, t) : raw[i].strike > cp}
                k    == Min2(2, Cardinality(itm))
                sel  == {df[j].index + 1 : j \in 1..Len(df)}
            IN  /\ Len(list) <= 7
                /\ Len(list) = Len(df)
                /\ Len(list) = k + Min2(5, Cardinality(otm))
                /\ Cardinality(sel) = Len(df)
                /\ \A j \in 1..Len(list) :
                      /\ df[j].index + 1 \in Priced(r, t)
                      /\ list[j].strike = raw[df[j].index + 1].strike
                      /\ list[j].strike # cp
                      /\ j <= k => list[j].strike < cp
                      /\ j > k => list[j].strike > cp
                      /\ (j < k) => list[j].strike >= list[j + 1].strike
                      /\ (j > k /\ j < Len(list)) => list[j].strike <= list[j + 1].strike
                /\ \A i \in itm \ sel : \A j \in 1..k : raw[i].strike <= list[j].strike
                /\ \A i \in otm \ sel :
                      \A j \in (k + 1)..Len(list) : raw[i].strike >= list[j].strike
                /\ (cp = 100 /\ {raw[i].strike : i \in Priced(r, t)} =
                                    {80, 90, 95, 105, 110, 120, 130, 140})
                      => Strikes(list) = <<95, 90, 105, 110, 120, 130, 140>>

\* both buckets are cut short and a candidate sits at the current price
BucketSelectionAndOrderWitness ==
    \E r \in Reqs : \E t \in Scanned(r) :
        /\ IsSuccess(results[r][t])
        /\ results[r][t].current_price = 100
        /\ {RawCalls(r, t)[i].strike : i \in Priced(r, t)} = StrikePool
        /\ Strikes(results[r][t].strategies) = <<95, 90, 105, 110, 120, 130, 140>>

-----------------------------------------------------------------------------
(* C6 *)

MetricIdentities(s, cp) ==
    /\ s.total_return_pct = Rat((s.premium + (s.strike - cp)) * 100, cp)
    /\ s.premium_yield_pct = Rat(s.premium * 100, cp)
    /\ s.downside_breakeven = cp - s.premium

\* C6: every strategy record of a success result carries cap_gain,
\* total_return_pct, premium_yield_pct and downside_breakeven, with
\* cap_gain = strike - current_price and the three metric identities.
MetricFieldsWithCapGain ==
    \A r \in Reqs : \A t \in Scanned(r) :
        IsSuccess(results[r][t]) =>
            \A i \in 1..Len(results[r][t].strategies) :
                LET s == results[r][t].strategies[i] IN
                /\ "cap_gain" \in DOMAIN s
                /\ s.cap_gain = s.strike - results[r][t].current_price
                /\ MetricIdentities(s, results[r][t].current_price)

-----------------------------------------------------------------------------
(* C1, C2 *)

\* the expiration dates the source of the call offered
Offered(r, t) ==
    IF ViaPolygon(r, t)
    THEN {c[1] : c \in {x \in Range(polygon[t].contracts) : x # <<>>}}
    ELSE Range(yfin[t].options)

\* the day-count of date d lies in the window, for the clock reading now
InWindow(d, now) == MinDays <= Days(d, now) /\ Days(d, now) <= MaxDays

\* C1: whatever order the provider delivered the dates in, the selected
\* expiration is the earliest date whose day-count lies in [20, 40], on the
\* primary path and on the fallback path.
SelectsEarliestInWindow ==
    \A r \in Reqs : \A t \in Scanned(r) :
        IsSuccess(results[r][t]) =>
            LET inWindow == {d \in Offered(r, t) : InWindow(d, Reading(r, t))}
            IN  /\ results[r][t].expiration \in inWindow
                /\ \A d \in inWindow : results[r][t].expiration <= d

\* a candidate whose date is 20 to 40 days after the reference day
InCalendarWindow(d, now) == 20 <= d - now.day /\ d - now.day <= 40

NoSuitable == <<"Polygon failed: ", "No suitable expiration">>

\* C2: the selection yields a date iff at least one candidate lies 20 to 40 days
\* (both ends included) after the reference day; 19 and 41 days are rejected.
WindowInclusive ==
    \A r \in Reqs : \A t \in Scanned(r) :
        /\ today_dt[r][t] # <<>>
           => ( polygon_err[r][t] # NoSuitable
                <=> \E c \in Range(polygon[t].contracts) :
                        c # <<>> /\ InCalendarWindow(c[1], today_dt[r][t][1]) )
        /\ today[r][t] # <<>>
           => ( ~(IsError(results[r][t])
                    /\ results[r][t].error[1] = "No monthly expiration for ")
                <=> \E d \in Range(yfin[t].options) :
                        InCalendarWindow(d, today[r][t][1]) )

-----------------------------------------------------------------------------
(* C3 *)

\* last_price when present and > 0, otherwise bid when present and > 0,
\* otherwise no premium
Resolved(raw) ==
    IF Positive(raw.last) THEN raw.last
    ELSE IF Positive(raw.bid) THEN raw.bid
    ELSE <<>>

\* C3: on either source the premium of a record is last_price when present and
\* > 0, otherwise bid when present and > 0, otherwise the record has no premium;
\* so a record with last_price 0 or absent and bid > 0 is retained with premium
\* = bid (it is emitted whenever its bucket has room for every record).
PremiumPriority ==
    \A r \in Reqs : \A t \in Scanned(r) :
        (IsSuccess(results[r][t]) /\ results[r][t].current_price > 0) =>
            LET raw == RawCalls(r, t)
                cp  == results[r][t].current_price
                df  == strategies[r][t]
            IN  /\ \A j \in 1..Len(df) :
                      <<df[j].premium>> = Resolved(raw[df[j].index + 1])
                /\ \A i \in 1..Len(raw) :
                      ( /\ Resolved(raw[i]) # <<>>
                        /\ raw[i].strike # cp
                        /\ Cardinality({n \in 1..Len(raw) : raw[n].strike < cp}) <= 2
                        /\ Cardinality({n \in 1..Len(raw) : raw[n].strike > cp}) <= 5 )
                      => \E j \in 1..Len(df) : df[j].index + 1 = i

-----------------------------------------------------------------------------
(* C7 *)

RECURSIVE SumOpenInterest(_)
SumOpenInterest(list) ==
    IF list = <<>> THEN 0 ELSE Head(list).openInterest + SumOpenInterest(Tail(list))

\* C7: every success result carries total_open_interest, the sum of
\* open_interest over the strategies of that result (0 when there are none).
TotalOpenInterest ==
    \A r \in Reqs : \A t \in Scanned(r) :
        IsSuccess(results[r][t]) =>
            /\ "total_open_interest" \in DOMAIN results[r][t]
            /\ results[r][t].total_open_interest =
                  SumOpenInterest(results[r][t].strategies)

-----------------------------------------------------------------------------
(* C8 *)

\* Polygon answered with a positive price, a date in the window and, for every such
\* date, a chain with no call that passes the premium filter
PolygonChainEmpty(r, t) ==
    /\ polygon[t].fault = "none"
    /\ polygon[t].hasLastTrade
    /\ Positive(polygon[t].price)
    /\ today_dt[r][t] # <<>>
    /\ \E c \in Range(polygon[t].contracts) :
          c # <<>> /\ InWindow(c[1], today_dt[r][t][1])
    /\ \A c \in Range(polygon[t].contracts) :
          (c # <<>> /\ InWindow(c[1], today_dt[r][t][1]))
          => \A q \in Range(PolygonCalls(polygon[t].chain[c[1]])) :
                ~(PolygonPremium(q) > 0)

\* the same of yfinance, when the call fell back to it
YfChainEmpty(r, t) ==
    /\ ~ViaPolygon(r, t)
    /\ yfin[t].fault = "none"
    /\ yfin[t].hist_1d # <<>>
    /\ yfin[t].hist_1d[Len(yfin[t].hist_1d)] > 0
    /\ today[r][t] # <<>>
    /\ \E d \in Range(yfin[t].options) : InWindow(d, today[r][t][1])
    /\ \A d \in Range(yfin[t].options) :
          InWindow(d, today[r][t][1])
          => \A q \in Range(yfin[t].chain[d]) : ~Positive(YfPremium(q))

\* C8: a ticker with a current price and a suitable expiration whose call chain
\* is empty, or loses every record to the premium filter, gets a success record
\* with an empty strategy list, on whichever source supplied the chain.
EmptyChainIsSuccess ==
    \A r \in Reqs : \A t \in Scanned(r) :
        /\ PolygonChainEmpty(r, t)
              => IsSuccess(results[r][t]) /\ results[r][t].strategies = <<>>
        /\ (YfChainEmpty(r, t) /\ ~PolygonChainEmpty(r, t))
              => IsSuccess(results[r][t]) /\ results[r][t].strategies = <<>>

-----------------------------------------------------------------------------
(* C9 *)

\* C9: the scan of a group with tickers ends with a report that has exactly one
\* entry per ticker, whatever fails for a ticker, a fault during bucketing or
\* metric derivation included; each entry is what the ticker gets on its own.
FailureIsolation ==
    \A r \in Reqs :
        /\ pc[r] # "raised"
        /\ (pc[r] = "done" /\ Tickers(Key) # <<>>) =>
              /\ DOMAIN response[r] = Range(Tickers(Key))
              /\ \A t \in Range(Tickers(Key)) :
                    \E now70, now136 \in Nows :
                        response[r][t] \in
                            {o.out : o \in GetCoveredCallStrategies(
                                        t, polygon[t], yfin[t], now70, now136)}

-----------------------------------------------------------------------------
(* C10 *)

\* the current price the source of the call reported (None is <<>>)
SourcePrice(r, t) ==
    IF ViaPolygon(r, t) THEN polygon[t].price
    ELSE IF yfin[t].fault # "history_1d" /\ yfin[t].hist_1d # <<>>
         THEN <<yfin[t].hist_1d[Len(yfin[t].hist_1d)]>>
         ELSE <<>>

\* C10: a current price that is zero, negative or missing gives a failure
\* record: no success result has a non-positive current_price.
InvalidPriceReported ==
    \A r \in Reqs : \A t \in Scanned(r) :
        /\ IsSuccess(results[r][t]) => results[r][t].current_price > 0
        /\ ~Positive(SourcePrice(r, t)) => IsError(results[r][t])

====
